---- MODULE Spec2Model ----
(***************************************************************************)
(* The scoring engine of AFScorecard (src/App.tsx, the afScorecard part):  *)
(* getPoints, computeCategoryScore and computeMemberAFScore, applied to a  *)
(* vote catalog and a member-vote catalog.                                 *)
(*                                                                         *)
(* Numbers.  The engine computes with JavaScript numbers.  The model       *)
(* computes with exact rationals <<n, d>> in lowest terms (d > 0), so a    *)
(* result is the real number the code's expression denotes; the rounding   *)
(* of IEEE doubles is not modelled.  A value of type `number | null` is a  *)
(* record [isNull, value].                                                 *)
(*                                                                         *)
(* The server (src/server.js): the tables politicians, bills and           *)
(* member_votes of initDb, the in-memory set adminTokens, the login and    *)
(* the admin endpoints with recomputeScoresForMember.  A handler is a      *)
(* sequence of steps, one per database statement it awaits; requests[a]    *)
(* is the request the admin connection a has sent and how far its handler  *)
(* has got.  The columns name, chamber, state and party of a politician    *)
(* are one value, profile; title, chamber, bill_date, description and      *)
(* gov_link of a bill are one value, details; image_data, trending and     *)
(* created_at are left out.                                                *)
(***************************************************************************)
EXTENDS Integers, Sequences, FiniteSets, Bags, TLC

VARIABLES allVotes, allMemberVotes, call, result,
          politicians, bills, member_votes, adminTokens, login, requests

engineVars == <<allVotes, allMemberVotes, call, result>>
serverVars == <<politicians, bills, member_votes, adminTokens, login, requests>>
vars == <<engineVars, serverVars>>

----------------------------------------------------------------------------
(* Bounds of the model *)

\* importance weights of the catalogs are 0..MaxWeight
MaxWeight == 2

----------------------------------------------------------------------------
(* Exact rational arithmetic *)

Abs(x) == IF x < 0 THEN -x ELSE x

RECURSIVE GCD(_, _)
GCD(a, b) == IF b = 0 THEN a ELSE GCD(b, a % b)

\* the rational n/d (d # 0) in lowest terms with a positive denominator
Rat(n, d) ==
  LET g == GCD(Abs(n), Abs(d))
      s == IF d < 0 THEN -1 ELSE 1
  IN  <<(s * n) \div g, (s * d) \div g>>

RAdd(a, b) == Rat(a[1] * b[2] + b[1] * a[2], a[2] * b[2])
RMul(a, b) == Rat(a[1] * b[1], a[2] * b[2])
RDiv(a, b) == Rat(a[1] * b[2], a[2] * b[1])
RLeq(a, b) == a[1] * b[2] <= b[1] * a[2]
RZero == <<0, 1>>
ROne == <<1, 1>>
RHundred == <<100, 1>>

\* number | null
Null == [isNull |-> TRUE, value |-> RZero]
Number(r) == [isNull |-> FALSE, value |-> r]

----------------------------------------------------------------------------
(* Types of the engine *)

CategoryId == {"IMMIGRATION", "FOREIGN_AID", "TAXES_TRADE", "HEALTHCARE", "INSURANCE"}

VoteChoice == {"YES", "NO", "ABSENT"}

\* member ids, in catalog order
MemberIds == <<"M001", "M002">>
Members == {MemberIds[i] : i \in 1..Len(MemberIds)}

\* the members with records in the member-vote catalogs; the scores of the
\* others are computed too, from catalogs that record nothing for them
RecordedMemberIds == <<"M001">>

\* vote ids, in catalog order
VoteIds == <<"V001", "V002">>

\* congress numbers of the catalogs and of the filter
Congresses == {0, 1}

\* importance weights of the catalogs: 0, 1.0 (normal), 2.0 (critical), ...
Weights == {Rat(w, 1) : w \in 0..MaxWeight}

\* the optional parameter congressFilter: omitted, or a number
NoFilter == [given |-> FALSE, value |-> 0]
Filter(n) == [given |-> TRUE, value |-> n]
Filters == {NoFilter} \cup {Filter(n) : n \in Congresses}

\* JavaScript truthiness of congressFilter: undefined and 0 are falsy
Truthy(f) == f.given /\ f.value # 0

CATEGORY_WEIGHTS ==
  [c \in CategoryId |->
     CASE c = "IMMIGRATION" -> Rat(3, 10)
       [] c = "FOREIGN_AID" -> Rat(3, 10)
       [] c = "TAXES_TRADE" -> Rat(2, 10)
       [] c = "HEALTHCARE"  -> Rat(1, 10)
       [] c = "INSURANCE"   -> Rat(1, 10)]

ALIGN_POINTS == Rat(1, 1)
OPPOSE_POINTS == Rat(0, 1)
ABSENCE_POINTS == Rat(1, 4)

----------------------------------------------------------------------------
(* The engine *)

\* variants of getPoints with one slip each
getPointsAbsentOpposes(afPosition, vote) ==
  IF vote = afPosition THEN ALIGN_POINTS ELSE OPPOSE_POINTS

getPointsYesAligns(afPosition, vote) ==
  IF vote = "ABSENT" THEN ABSENCE_POINTS
  ELSE IF vote = "YES" THEN ALIGN_POINTS
  ELSE OPPOSE_POINTS

getPointsOpposedPartial(afPosition, vote) ==
  IF vote = afPosition THEN ALIGN_POINTS ELSE ABSENCE_POINTS

getPoints(afPosition, vote) ==
  IF vote = "ABSENT" THEN ABSENCE_POINTS
  ELSE IF vote = afPosition THEN ALIGN_POINTS
  ELSE OPPOSE_POINTS

\* allVotes.filter(...) of computeCategoryScore
SelectVotes(category, votes, congressFilter) ==
  SelectSeq(votes,
            LAMBDA v : ~(v.category # category)
                       /\ ~(Truthy(congressFilter) /\ v.congress # congressFilter.value))

\* variant of FindMemberVote: a lookup miss counts as a NO vote
FindMemberVoteMissIsNo(memberVotes, voteId, memberId) ==
  LET hits == {i \in 1..Len(memberVotes) :
                 memberVotes[i].voteId = voteId /\ memberVotes[i].memberId = memberId}
  IN  IF hits = {}
      THEN [voteId |-> voteId, memberId |-> memberId, vote |-> "NO"]
      ELSE memberVotes[CHOOSE i \in hits : \A j \in hits : i <= j]

\* allMemberVotes.find(...) ?? { voteId, memberId, vote: "ABSENT" }
FindMemberVote(memberVotes, voteId, memberId) ==
  LET hits == {i \in 1..Len(memberVotes) :
                 memberVotes[i].voteId = voteId /\ memberVotes[i].memberId = memberId}
  IN  IF hits = {}
      THEN [voteId |-> voteId, memberId |-> memberId, vote |-> "ABSENT"]
      ELSE memberVotes[CHOOSE i \in hits : \A j \in hits : i <= j]

\* variants of Accumulate: the weight left out of the denominator, and left
\* out of both sums
RECURSIVE AccumulateUnitDenominator(_, _, _, _, _, _)
AccumulateUnitDenominator(votes, k, memberId, memberVotes, numerator, denominator) ==
  IF k > Len(votes) THEN <<numerator, denominator>>
  ELSE LET vote == votes[k]
           mv == FindMemberVote(memberVotes, vote.id, memberId)
           points == getPoints(vote.afPosition, mv.vote)
       IN  AccumulateUnitDenominator(votes, k + 1, memberId, memberVotes,
                                     RAdd(numerator, RMul(points, vote.importanceWeight)),
                                     RAdd(denominator, ROne))

RECURSIVE AccumulateUnweighted(_, _, _, _, _, _)
AccumulateUnweighted(votes, k, memberId, memberVotes, numerator, denominator) ==
  IF k > Len(votes) THEN <<numerator, denominator>>
  ELSE LET vote == votes[k]
           mv == FindMemberVote(memberVotes, vote.id, memberId)
           points == getPoints(vote.afPosition, mv.vote)
       IN  AccumulateUnweighted(votes, k + 1, memberId, memberVotes,
                                RAdd(numerator, points), RAdd(denominator, ROne))

\* variant of Accumulate: a vote without a record of the member is skipped
RECURSIVE AccumulateSkipUnrecorded(_, _, _, _, _, _)
AccumulateSkipUnrecorded(votes, k, memberId, memberVotes, numerator, denominator) ==
  IF k > Len(votes) THEN <<numerator, denominator>>
  ELSE LET vote == votes[k]
           mv == FindMemberVote(memberVotes, vote.id, memberId)
           points == getPoints(vote.afPosition, mv.vote)
           missing == \A i \in 1..Len(memberVotes) :
                        ~(memberVotes[i].voteId = vote.id /\ memberVotes[i].memberId = memberId)
       IN  IF missing
           THEN AccumulateSkipUnrecorded(votes, k + 1, memberId, memberVotes,
                                         numerator, denominator)
           ELSE AccumulateSkipUnrecorded(votes, k + 1, memberId, memberVotes,
                                         RAdd(numerator, RMul(points, vote.importanceWeight)),
                                         RAdd(denominator, RMul(ROne, vote.importanceWeight)))

\* the for loop of computeCategoryScore over votes[k..]: <<numerator, denominator>>
RECURSIVE Accumulate(_, _, _, _, _, _)
Accumulate(votes, k, memberId, memberVotes, numerator, denominator) ==
  IF k > Len(votes) THEN <<numerator, denominator>>
  ELSE LET vote == votes[k]
           mv == FindMemberVote(memberVotes, vote.id, memberId)
           points == getPoints(vote.afPosition, mv.vote)
       IN  Accumulate(votes, k + 1, memberId, memberVotes,
                      RAdd(numerator, RMul(points, vote.importanceWeight)),
                      RAdd(denominator, RMul(ROne, vote.importanceWeight)))

\* variant of computeCategoryScore: a zero denominator gives the number 0
computeCategoryScoreNoZeroCheck(memberId, category, votesAll, memberVotesAll, congressFilter) ==
  LET votes == SelectVotes(category, votesAll, congressFilter)
  IN  IF Len(votes) = 0 THEN Null
      ELSE LET acc == Accumulate(votes, 1, memberId, memberVotesAll, RZero, RZero)
               numerator == acc[1]
               denominator == acc[2]
           IN  IF denominator = RZero THEN Number(RZero)
               ELSE Number(RMul(RDiv(numerator, denominator), RHundred))

\* variant of computeCategoryScore: no data when the member has no record on
\* any of the selected votes
computeCategoryScoreUnrecordedIsNull(memberId, category, votesAll, memberVotesAll, congressFilter) ==
  LET votes == SelectVotes(category, votesAll, congressFilter)
      recorded == {k \in 1..Len(votes) :
                     \E i \in 1..Len(memberVotesAll) :
                       /\ memberVotesAll[i].voteId = votes[k].id
                       /\ memberVotesAll[i].memberId = memberId}
  IN  IF Len(votes) = 0 \/ recorded = {} THEN Null
      ELSE LET acc == Accumulate(votes, 1, memberId, memberVotesAll, RZero, RZero)
               numerator == acc[1]
               denominator == acc[2]
           IN  IF denominator = RZero THEN Null
               ELSE Number(RMul(RDiv(numerator, denominator), RHundred))

computeCategoryScore(memberId, category, votesAll, memberVotesAll, congressFilter) ==
  LET votes == SelectVotes(category, votesAll, congressFilter)
  IN  IF Len(votes) = 0 THEN Null
      ELSE LET acc == Accumulate(votes, 1, memberId, memberVotesAll, RZero, RZero)
               numerator == acc[1]
               denominator == acc[2]
           IN  IF denominator = RZero THEN Null
               ELSE Number(RMul(RDiv(numerator, denominator), RHundred))

\* the order of the categories array of computeMemberAFScore
CategoryOrder == <<"IMMIGRATION", "FOREIGN_AID", "TAXES_TRADE", "HEALTHCARE", "INSURANCE">>

\* variant of WeightedLoop: the weights of all five categories in totalWeight
RECURSIVE WeightedLoopAllWeights(_, _, _, _, _)
WeightedLoopAllWeights(cats, k, perCategory, weightedSum, totalWeight) ==
  IF k > Len(cats) THEN <<weightedSum, ROne>>
  ELSE LET cat == cats[k]
           score == perCategory[cat].value
           weight == CATEGORY_WEIGHTS[cat]
       IN  WeightedLoopAllWeights(cats, k + 1, perCategory,
                                  RAdd(weightedSum, RMul(RDiv(score, RHundred), weight)),
                                  RAdd(totalWeight, weight))

\* the second for loop of computeMemberAFScore: <<weightedSum, totalWeight>>
RECURSIVE WeightedLoop(_, _, _, _, _)
WeightedLoop(cats, k, perCategory, weightedSum, totalWeight) ==
  IF k > Len(cats) THEN <<weightedSum, totalWeight>>
  ELSE LET cat == cats[k]
           score == perCategory[cat].value
           weight == CATEGORY_WEIGHTS[cat]
       IN  WeightedLoop(cats, k + 1, perCategory,
                        RAdd(weightedSum, RMul(RDiv(score, RHundred), weight)),
                        RAdd(totalWeight, weight))

\* variant of computeMemberAFScore: a weightedSum of 0 read as no data
computeMemberAFScoreFalsySum(memberId, votesAll, memberVotesAll, congressFilter) ==
  LET perCategory ==
        [IMMIGRATION |->
           computeCategoryScore(memberId, "IMMIGRATION", votesAll, memberVotesAll, congressFilter),
         FOREIGN_AID |->
           computeCategoryScore(memberId, "FOREIGN_AID", votesAll, memberVotesAll, congressFilter),
         TAXES_TRADE |->
           computeCategoryScore(memberId, "TAXES_TRADE", votesAll, memberVotesAll, congressFilter),
         HEALTHCARE |->
           computeCategoryScore(memberId, "HEALTHCARE", votesAll, memberVotesAll, congressFilter),
         INSURANCE |->
           computeCategoryScore(memberId, "INSURANCE", votesAll, memberVotesAll, congressFilter)]
      categoriesWithScore ==
        SelectSeq(CategoryOrder, LAMBDA c : ~perCategory[c].isNull)
  IN  IF Len(categoriesWithScore) = 0
      THEN [memberId |-> memberId, perCategory |-> perCategory, overall |-> Null]
      ELSE LET acc == WeightedLoop(categoriesWithScore, 1, perCategory, RZero, RZero)
               overall0to1 == RDiv(acc[1], acc[2])
           IN  [memberId |-> memberId, perCategory |-> perCategory,
                overall |-> IF acc[1] = RZero THEN Null
                            ELSE Number(RMul(overall0to1, RHundred))]

computeMemberAFScore(memberId, votesAll, memberVotesAll, congressFilter) ==
  LET perCategory ==
        [IMMIGRATION |->
           computeCategoryScore(memberId, "IMMIGRATION", votesAll, memberVotesAll, congressFilter),
         FOREIGN_AID |->
           computeCategoryScore(memberId, "FOREIGN_AID", votesAll, memberVotesAll, congressFilter),
         TAXES_TRADE |->
           computeCategoryScore(memberId, "TAXES_TRADE", votesAll, memberVotesAll, congressFilter),
         HEALTHCARE |->
           computeCategoryScore(memberId, "HEALTHCARE", votesAll, memberVotesAll, congressFilter),
         INSURANCE |->
           computeCategoryScore(memberId, "INSURANCE", votesAll, memberVotesAll, congressFilter)]
      categoriesWithScore ==
        SelectSeq(CategoryOrder, LAMBDA c : ~perCategory[c].isNull)
  IN  IF Len(categoriesWithScore) = 0
      THEN [memberId |-> memberId, perCategory |-> perCategory, overall |-> Null]
      ELSE LET acc == WeightedLoop(categoriesWithScore, 1, perCategory, RZero, RZero)
               overall0to1 == RDiv(acc[1], acc[2])
           IN  [memberId |-> memberId, perCategory |-> perCategory,
                overall |-> Number(RMul(overall0to1, RHundred))]

----------------------------------------------------------------------------
(* The catalogs the engine is applied to *)

\* a Vote without its id
VoteAttrs ==
  [congress : Congresses, category : CategoryId, afPosition : {"YES", "NO"},
   importanceWeight : Weights]

IndexOf(seq, x) == CHOOSE i \in 1..Len(seq) : seq[i] = x

\* The engine never compares two votes with each other and sums exactly, so a
\* catalog stands for all its rearrangements: the catalogs list their votes
\* with nondecreasing AttrKey.
AttrKey(a) ==
  ((IndexOf(CategoryOrder, a.category) * Cardinality(Congresses) + a.congress) * 2
     + (IF a.afPosition = "YES" THEN 0 ELSE 1)) * (MaxWeight + 1)
  + a.importanceWeight[1]

\* vote catalogs: the vote at position i has id VoteIds[i]
VoteCatalogs ==
  UNION {{[i \in 1..n |->
             [id |-> VoteIds[i], congress |-> a[i].congress, category |-> a[i].category,
              afPosition |-> a[i].afPosition,
              importanceWeight |-> a[i].importanceWeight]] :
            a \in {b \in [1..n -> VoteAttrs] :
                     \A i \in 1..(n - 1) : AttrKey(b[i]) <= AttrKey(b[i + 1])}} :
         n \in 0..Len(VoteIds)}

\* the (member, vote) pairs, in catalog order
Pairs ==
  [k \in 1..(Len(RecordedMemberIds) * Len(VoteIds)) |->
     [memberId |-> RecordedMemberIds[((k - 1) \div Len(VoteIds)) + 1],
      voteId |-> VoteIds[((k - 1) % Len(VoteIds)) + 1]]]

\* the records of the pairs k.. that the assignment f gives a choice
RECURSIVE RecordsOf(_, _)
RecordsOf(f, k) ==
  IF k > Len(Pairs) THEN <<>>
  ELSE IF f[k] = "none" THEN RecordsOf(f, k + 1)
  ELSE <<[voteId |-> Pairs[k].voteId, memberId |-> Pairs[k].memberId, vote |-> f[k]]>>
         \o RecordsOf(f, k + 1)

\* member-vote catalogs: at most one MemberVote per (member, vote) pair,
\* listed in the order of Pairs
MemberVoteCatalogs ==
  {RecordsOf(f, 1) : f \in [1..Len(Pairs) -> VoteChoice \cup {"none"}]}

NoCall == [made |-> FALSE, memberId |-> "M001", congressFilter |-> NoFilter]
NoResult ==
  [memberId |-> "M001",
   perCategory |-> [IMMIGRATION |-> Null, FOREIGN_AID |-> Null, TAXES_TRADE |-> Null,
                    HEALTHCARE |-> Null, INSURANCE |-> Null],
   overall |-> Null]

\* the engine runs in the browser: no server state takes part
NoServer ==
  /\ politicians = <<>>
  /\ bills = <<>>
  /\ member_votes = <<>>
  /\ adminTokens = {}
  /\ login = <<>>
  /\ requests = <<>>

Init ==
  /\ allVotes \in VoteCatalogs
  /\ allMemberVotes \in MemberVoteCatalogs
  /\ call = NoCall
  /\ result = NoResult
  /\ NoServer

\* one invocation of computeMemberAFScore on the catalogs
ComputeMemberAFScore(memberId, congressFilter) ==
  /\ ~call.made
  /\ call' = [made |-> TRUE, memberId |-> memberId, congressFilter |-> congressFilter]
  /\ result' = computeMemberAFScore(memberId, allVotes, allMemberVotes, congressFilter)
  /\ UNCHANGED <<allVotes, allMemberVotes>>
  /\ UNCHANGED serverVars

Next ==
  \E memberId \in Members, congressFilter \in Filters :
    ComputeMemberAFScore(memberId, congressFilter)

Spec == Init /\ [][Next]_vars

----------------------------------------------------------------------------
(* The reference fixture of sampleData.ts *)

CURRENT_CONGRESS == 119

FixtureMembers == {"M001", "M002", "M003"}

\* export const votes
FixtureVotes ==
  <<[id |-> "V001", congress |-> CURRENT_CONGRESS, category |-> "IMMIGRATION",
     afPosition |-> "YES", importanceWeight |-> Rat(3, 2)],
    [id |-> "V002", congress |-> CURRENT_CONGRESS, category |-> "IMMIGRATION",
     afPosition |-> "NO", importanceWeight |-> Rat(1, 1)],
    [id |-> "V003", congress |-> CURRENT_CONGRESS, category |-> "FOREIGN_AID",
     afPosition |-> "NO", importanceWeight |-> Rat(2, 1)],
    [id |-> "V004", congress |-> CURRENT_CONGRESS - 1, category |-> "FOREIGN_AID",
     afPosition |-> "NO", importanceWeight |-> Rat(1, 1)],
    [id |-> "V005", congress |-> CURRENT_CONGRESS, category |-> "TAXES_TRADE",
     afPosition |-> "YES", importanceWeight |-> Rat(1, 1)],
    [id |-> "V006", congress |-> CURRENT_CONGRESS, category |-> "HEALTHCARE",
     afPosition |-> "YES", importanceWeight |-> Rat(1, 1)],
    [id |-> "V007", congress |-> CURRENT_CONGRESS, category |-> "INSURANCE",
     afPosition |-> "YES", importanceWeight |-> Rat(1, 1)]>>

\* export const memberVotes
FixtureMemberVotes ==
  <<[voteId |-> "V001", memberId |-> "M001", vote |-> "YES"],
    [voteId |-> "V003", memberId |-> "M001", vote |-> "YES"],
    [voteId |-> "V006", memberId |-> "M001", vote |-> "YES"],
    [voteId |-> "V002", memberId |-> "M002", vote |-> "NO"],
    [voteId |-> "V004", memberId |-> "M002", vote |-> "NO"],
    [voteId |-> "V005", memberId |-> "M002", vote |-> "YES"],
    [voteId |-> "V007", memberId |-> "M002", vote |-> "ABSENT"],
    [voteId |-> "V002", memberId |-> "M003", vote |-> "YES"],
    [voteId |-> "V004", memberId |-> "M003", vote |-> "YES"],
    [voteId |-> "V005", memberId |-> "M003", vote |-> "NO"],
    [voteId |-> "V007", memberId |-> "M003", vote |-> "NO"]>>

\* the records of seq at the positions of keep, in the order of seq
RECURSIVE Keep(_, _, _)
Keep(seq, keep, k) ==
  IF k > Len(seq) THEN <<>>
  ELSE (IF k \in keep THEN <<seq[k]>> ELSE <<>>) \o Keep(seq, keep, k + 1)

\* the fixture as exported, and the fixture with records not yet entered
FixtureMemberVoteCatalogs ==
  {Keep(FixtureMemberVotes, keep, 1) : keep \in SUBSET (1..Len(FixtureMemberVotes))}

\* App.tsx scores every member over all sessions and over CURRENT_CONGRESS
FixtureFilters == {NoFilter, Filter(CURRENT_CONGRESS)}

FixtureInit ==
  /\ allVotes = FixtureVotes
  /\ allMemberVotes \in FixtureMemberVoteCatalogs
  /\ call = NoCall
  /\ result = NoResult
  /\ NoServer

FixtureNext ==
  \E memberId \in FixtureMembers, congressFilter \in FixtureFilters :
    ComputeMemberAFScore(memberId, congressFilter)

FixtureSpec == FixtureInit /\ [][FixtureNext]_vars

----------------------------------------------------------------------------
(* The server: tables, recomputeScoresForMember *)

\* SQL NULL, JavaScript null and a missing Authorization header
NULL == "NULL"

ADMIN_PASSWORD == "change-me"

\* ids crypto.randomUUID() gives to politicians and bills
PoliticianIds == {"P1", "P2"}
BillIds == {"B1", "B2"}

\* values of bills.af_position, a TEXT column the handlers fill with what the
\* request sends: the three positions, NULL, the empty string and a string
\* that is none of them; values of member_votes.vote
AfPositions == {"America First", "Anti-America First", "Neither", NULL, "", "Mixed"}
VoteValues == {"Approved", "Opposed", "Absent"}

\* a row of politicians, of bills and of member_votes; member_votes is a bag
\* of rows, so that two rows equal in every column but id are two rows
Politician(bioguide_id, profile, position, lifetime_score, current_score) ==
  [bioguide_id |-> bioguide_id, profile |-> profile, position |-> position,
   lifetime_score |-> lifetime_score, current_score |-> current_score]

Bill(details, af_position) == [details |-> details, af_position |-> af_position]

MemberVote(member_id, bill_id, vote, is_current_congress) ==
  [member_id |-> member_id, bill_id |-> bill_id, vote |-> vote,
   is_current_congress |-> is_current_congress]

\* the number of rows of the bag that are in S
RECURSIVE CountRows(_, _)
CountRows(bag, S) ==
  IF S = {} THEN 0
  ELSE LET r == CHOOSE x \in S : TRUE
       IN  CopiesIn(r, bag) + CountRows(bag, S \ {r})

\* the rows of member_votes of a (member, bill) pair, of a bill, of a member
RowsOfPair(mv, memberId, billId) ==
  {r \in BagToSet(mv) : r.member_id = memberId /\ r.bill_id = billId}
RowsOfBill(mv, billId) == {r \in BagToSet(mv) : r.bill_id = billId}
RowsOfMember(mv, memberId) == {r \in BagToSet(mv) : r.member_id = memberId}

\* the bag without the rows that are in S
WithoutRows(mv, S) == [r \in BagToSet(mv) \ S |-> mv[r]]

\* SELECT b.af_position, mv.vote, mv.is_current_congress FROM member_votes mv
\* JOIN bills b ON mv.bill_id = b.id WHERE mv.member_id = $1: a bag of rows
SelectMemberRows(mv, bl, memberId) ==
  LET src == {r \in RowsOfMember(mv, memberId) : r.bill_id \in DOMAIN bl}
      Joined(r) == [afPosition |-> bl[r.bill_id].af_position, vote |-> r.vote,
                    isCurrent |-> r.is_current_congress]
  IN  [o \in {Joined(r) : r \in src} |-> CountRows(mv, {r \in src : Joined(r) = o})]

\* the loop of recomputeScoresForMember over rows and the two scores
ScoresOfRows(rows) ==
  LET counted == {row \in DOMAIN rows :
                    /\ ~(row.afPosition \in {NULL, ""} \/ row.afPosition = "Neither")
                    /\ ~(row.vote # "Approved" /\ row.vote # "Opposed")}
      aligned == {row \in counted :
                    \/ (row.afPosition = "America First" /\ row.vote = "Approved")
                    \/ (row.afPosition = "Anti-America First" /\ row.vote = "Opposed")}
      current == {row \in counted : row.isCurrent = "true"}
      lifetimeTotal == CountRows(rows, counted)
      lifetimeCorrect == CountRows(rows, aligned)
      currentTotal == CountRows(rows, current)
      currentCorrect == CountRows(rows, aligned \cap current)
  IN  [lifetimeScore |->
         IF lifetimeTotal > 0
         THEN Number(RMul(Rat(lifetimeCorrect, lifetimeTotal), RHundred)) ELSE Null,
       currentScore |->
         IF currentTotal > 0
         THEN Number(RMul(Rat(currentCorrect, currentTotal), RHundred)) ELSE Null]

\* variant of UpdateScores: the UPDATE without its WHERE clause
UpdateScoresNoWhere(pol, memberId, scores) ==
  [p \in DOMAIN pol |->
     [pol[p] EXCEPT !.lifetime_score = scores.lifetimeScore,
                    !.current_score = scores.currentScore]]

\* UPDATE politicians SET lifetime_score = $2, current_score = $3 WHERE id = $1
UpdateScores(pol, memberId, scores) ==
  [p \in DOMAIN pol |->
     IF p = memberId
     THEN [pol[p] EXCEPT !.lifetime_score = scores.lifetimeScore,
                         !.current_score = scores.currentScore]
     ELSE pol[p]]

\* recomputeScoresForMember run without anything else in between: the table
\* politicians it leaves
recomputeScoresForMember(pol, bl, mv, memberId) ==
  UpdateScores(pol, memberId, ScoresOfRows(SelectMemberRows(mv, bl, memberId)))

----------------------------------------------------------------------------
(* The server: statements on the tables *)

Extend(f, k, v) == [x \in DOMAIN f \cup {k} |-> IF x = k THEN v ELSE f[x]]
Remove(f, k) == [x \in DOMAIN f \ {k} |-> f[x]]

\* SELECT COALESCE(MAX(position), 0) FROM politicians
MaxPosition(pol) ==
  IF DOMAIN pol = {} THEN 0
  ELSE LET p == CHOOSE x \in DOMAIN pol :
                  \A y \in DOMAIN pol : pol[y].position <= pol[x].position
       IN  pol[p].position

\* bioguide_id TEXT UNIQUE: the value is NULL or no row but id has it
BioguideFree(pol, id, bioguideId) ==
  bioguideId = NULL
    \/ \A p \in DOMAIN pol \ {id} : pol[p].bioguide_id # bioguideId

\* member_id REFERENCES politicians(id), bill_id REFERENCES bills(id)
ForeignKeysHold(pol, bl, memberId, billId) ==
  memberId \in DOMAIN pol /\ billId \in DOMAIN bl

\* variant of UpsertVote: a plain INSERT into a table without the constraint
\* member_votes_unique
UpsertVoteAlwaysInserts(mv, memberId, billId, vote, isCurrent) ==
  mv (+) SetToBag({MemberVote(memberId, billId, vote, isCurrent)})

\* INSERT INTO member_votes ... ON CONFLICT (member_id, bill_id) DO UPDATE SET
\* vote = EXCLUDED.vote, is_current_congress = COALESCE(EXCLUDED..., old)
UpsertVote(mv, memberId, billId, vote, isCurrent) ==
  LET conflict == RowsOfPair(mv, memberId, billId)
  IN  IF conflict = {}
      THEN mv (+) SetToBag({MemberVote(memberId, billId, vote, isCurrent)})
      ELSE LET old == CHOOSE r \in conflict : TRUE
               new == MemberVote(memberId, billId, vote,
                                 IF isCurrent # NULL THEN isCurrent
                                 ELSE old.is_current_congress)
           IN  (mv (-) SetToBag({old})) (+) SetToBag({new})

\* variant of CascadeBill: bill_id without ON DELETE CASCADE
CascadeBillKeepsRows(mv, billId) == mv

\* ON DELETE CASCADE of member_votes.bill_id and of member_votes.member_id
CascadeBill(mv, billId) == WithoutRows(mv, RowsOfBill(mv, billId))
CascadeMember(mv, memberId) == WithoutRows(mv, RowsOfMember(mv, memberId))

\* variant of SelectMembersOfBill: no member is selected
SelectMembersOfBillNone(mv, billId) == {<<>>}

\* SELECT DISTINCT member_id FROM member_votes WHERE bill_id = $1: the rows
\* come in an order the query does not fix
SelectMembersOfBill(mv, billId) ==
  LET ids == {r.member_id : r \in RowsOfBill(mv, billId)}
  IN  {s \in [1..Cardinality(ids) -> ids] : {s[i] : i \in DOMAIN s} = ids}

\* the loop of /api/members/reorder over ids[k..]
RECURSIVE ReorderLoop(_, _, _)
ReorderLoop(pol, ids, k) ==
  IF k > Len(ids) THEN pol
  ELSE ReorderLoop([p \in DOMAIN pol |->
                      IF p = ids[k] THEN [pol[p] EXCEPT !.position = k] ELSE pol[p]],
                   ids, k + 1)

\* the loop of /api/admin/sync-members over members[k..]; a new politician
\* gets an id that is not in use
RECURSIVE SyncLoop(_, _, _, _)
SyncLoop(pol, members, k, nextPosition) ==
  IF k > Len(members) THEN pol
  ELSE LET m == members[k]
           existing == {p \in DOMAIN pol : pol[p].bioguide_id = m.bioguideId}
       IN  IF existing # {}
           THEN LET id == CHOOSE p \in existing : TRUE
                IN  SyncLoop([pol EXCEPT ![id].profile = m.profile],
                             members, k + 1, nextPosition)
           ELSE LET id == CHOOSE p \in PoliticianIds \ DOMAIN pol : TRUE
                IN  SyncLoop(Extend(pol, id,
                                    Politician(m.bioguideId, m.profile,
                                               nextPosition + 1, Null, Null)),
                             members, k + 1, nextPosition + 1)

\* the members of the roster that SyncLoop inserts
NewInRoster(pol, members) ==
  {members[k].bioguideId : k \in 1..Len(members)}
    \ {pol[p].bioguide_id : p \in DOMAIN pol}

----------------------------------------------------------------------------
(* The server: login, requireAdmin and the handlers *)

\* the admin connections
Admins == {"A1", "A2"}

\* tokens crypto.randomUUID() gives out at login
Tokens == {"t1"}

tables == <<politicians, bills, member_votes>>

Request(op, token, memberId, billId, body) ==
  [op |-> op, token |-> token, memberId |-> memberId, billId |-> billId, body |-> body]

NoRequest == Request("none", NULL, NULL, NULL, <<>>)
NoScores == [lifetimeScore |-> Null, currentScore |-> Null]
NoLogin == [password |-> NULL, status |-> 0, token |-> NULL]

\* requests[a]: pc is where the handler of req stands ("idle": nothing sent,
\* "done": answered with status), pending the members its loop over mRes.rows
\* has still to recompute, scores what recomputeScoresForMember computed and has
\* not written yet, arrival the rows of member_votes when req arrived
Handler(pc, req, status, pending, scores, arrival) ==
  [pc |-> pc, req |-> req, status |-> status, pending |-> pending,
   scores |-> scores, arrival |-> arrival]

Idle == Handler("idle", NoRequest, 0, <<>>, NoScores, <<>>)

\* res.status(status).json(...)
Reply(a, req, status) ==
  requests' = [requests EXCEPT ![a] = Handler("done", req, status, <<>>, NoScores, member_votes)]

\* the handler h goes on to recompute the members of pending, or answers 200
\* when there is none
Loop(h, pending) ==
  IF pending = <<>>
  THEN Handler("done", h.req, 200, <<>>, NoScores, h.arrival)
  ELSE Handler("read", h.req, 0, pending, NoScores, h.arrival)

\* POST /api/login
Login(password) ==
  /\ IF password = NULL
     THEN /\ login' = [password |-> password, status |-> 400, token |-> NULL]
          /\ UNCHANGED adminTokens
     ELSE IF password # ADMIN_PASSWORD
     THEN /\ login' = [password |-> password, status |-> 401, token |-> NULL]
          /\ UNCHANGED adminTokens
     ELSE \E token \in Tokens \ adminTokens :
            /\ adminTokens' = adminTokens \cup {token}
            /\ login' = [password |-> password, status |-> 200, token |-> token]
  /\ UNCHANGED <<tables, requests, engineVars>>

\* variant of Authorized: any bearer token is accepted
AuthorizedAnyToken(token) == token # NULL

\* requireAdmin: token && adminTokens.has(token)
Authorized(token) == token # NULL /\ token \in adminTokens

\* req arrives on the connection a at the route op and passes requireAdmin
Admitted(a, req, op) ==
  /\ requests[a].pc = "idle"
  /\ req.op = op
  /\ Authorized(req.token)

\* requireAdmin answers 401
Unauthorized(a, req) ==
  /\ requests[a].pc = "idle"
  /\ ~Authorized(req.token)
  /\ Reply(a, req, 401)
  /\ UNCHANGED <<tables, adminTokens, login, engineVars>>

Has(body, key) == key \in DOMAIN body

\* POST /api/members
PostMember(a, req) ==
  /\ Admitted(a, req, "POST /api/members")
  /\ \E id \in PoliticianIds \ DOMAIN politicians :
       LET bioguideId == IF Has(req.body, "bioguideId") THEN req.body.bioguideId ELSE NULL
           profile == IF Has(req.body, "profile") THEN req.body.profile ELSE "New Member"
           nextPosition == MaxPosition(politicians) + 1
       IN  IF ~BioguideFree(politicians, id, bioguideId)
           THEN Reply(a, req, 500) /\ UNCHANGED politicians
           ELSE /\ politicians' = Extend(politicians, id,
                                         Politician(bioguideId, profile, nextPosition, Null, Null))
                /\ Reply(a, req, 201)
  /\ UNCHANGED <<bills, member_votes, adminTokens, login, engineVars>>

\* PUT /api/members/:id
PutMember(a, req) ==
  /\ Admitted(a, req, "PUT /api/members/:id")
  /\ LET id == req.memberId
         updates == DOMAIN req.body \cap {"profile", "position", "bioguideId"}
     IN  IF updates = {}
         THEN Reply(a, req, 400) /\ UNCHANGED politicians
         ELSE IF id \notin DOMAIN politicians
         THEN Reply(a, req, 404) /\ UNCHANGED politicians
         ELSE IF "bioguideId" \in updates
                 /\ ~BioguideFree(politicians, id, req.body.bioguideId)
         THEN Reply(a, req, 500) /\ UNCHANGED politicians
         ELSE /\ politicians' =
                   [politicians EXCEPT ![id] =
                      [bioguide_id |-> IF "bioguideId" \in updates
                                       THEN req.body.bioguideId ELSE @.bioguide_id,
                       profile |-> IF "profile" \in updates
                                   THEN req.body.profile ELSE @.profile,
                       position |-> IF "position" \in updates
                                    THEN req.body.position ELSE @.position,
                       lifetime_score |-> @.lifetime_score,
                       current_score |-> @.current_score]]
              /\ Reply(a, req, 200)
  /\ UNCHANGED <<bills, member_votes, adminTokens, login, engineVars>>

\* DELETE /api/members/:id
DeleteMember(a, req) ==
  /\ Admitted(a, req, "DELETE /api/members/:id")
  /\ IF req.memberId \notin DOMAIN politicians
     THEN Reply(a, req, 404) /\ UNCHANGED <<politicians, member_votes>>
     ELSE /\ politicians' = Remove(politicians, req.memberId)
          /\ member_votes' = CascadeMember(member_votes, req.memberId)
          /\ Reply(a, req, 200)
  /\ UNCHANGED <<bills, adminTokens, login, engineVars>>

\* POST /api/members/reorder
ReorderMembers(a, req) ==
  /\ Admitted(a, req, "POST /api/members/reorder")
  /\ IF ~Has(req.body, "ids") \/ Len(req.body.ids) = 0
     THEN Reply(a, req, 400) /\ UNCHANGED politicians
     ELSE /\ politicians' = ReorderLoop(politicians, req.body.ids, 1)
          /\ Reply(a, req, 200)
  /\ UNCHANGED <<bills, member_votes, adminTokens, login, engineVars>>

\* POST /api/admin/sync-members; fetched is what Congress.gov answers, after
\* normalizeCongressMembers: the fetch failed, or the usable members
SyncMembers(a, req, fetched) ==
  /\ Admitted(a, req, "POST /api/admin/sync-members")
  /\ IF ~fetched.ok
     THEN Reply(a, req, 500) /\ UNCHANGED politicians
     ELSE /\ Cardinality(NewInRoster(politicians, fetched.members))
               <= Cardinality(PoliticianIds \ DOMAIN politicians)
          /\ politicians' = SyncLoop(politicians, fetched.members, 1,
                                      MaxPosition(politicians))
          /\ Reply(a, req, 200)
  /\ UNCHANGED <<bills, member_votes, adminTokens, login, engineVars>>


\* POST /api/bills
PostBill(a, req) ==
  /\ Admitted(a, req, "POST /api/bills")
  /\ IF ~Has(req.body, "details")
     THEN Reply(a, req, 400) /\ UNCHANGED bills
     ELSE \E id \in BillIds \ DOMAIN bills :
            /\ bills' = Extend(bills, id,
                               Bill(req.body.details,
                                    IF Has(req.body, "afPosition")
                                    THEN req.body.afPosition ELSE NULL))
            /\ Reply(a, req, 201)
  /\ UNCHANGED <<politicians, member_votes, adminTokens, login, engineVars>>

\* PUT /api/bills/:id up to its UPDATE
PutBill(a, req) ==
  /\ Admitted(a, req, "PUT /api/bills/:id")
  /\ LET id == req.billId
         updates == DOMAIN req.body \cap {"details", "afPosition"}
     IN  IF updates = {}
         THEN Reply(a, req, 400) /\ UNCHANGED bills
         ELSE IF id \notin DOMAIN bills
         THEN Reply(a, req, 404) /\ UNCHANGED bills
         ELSE /\ bills' =
                   [bills EXCEPT ![id] =
                      [details |-> IF "details" \in updates
                                   THEN req.body.details ELSE @.details,
                       af_position |-> IF "afPosition" \in updates
                                       THEN req.body.afPosition ELSE @.af_position]]
              /\ requests' = [requests EXCEPT ![a] =
                                Handler("members", req, 0, <<>>, NoScores, member_votes)]
  /\ UNCHANGED <<politicians, member_votes, adminTokens, login, engineVars>>

\* PUT /api/bills/:id, the SELECT of the members to recompute
SelectMembers(a) ==
  /\ requests[a].pc = "members"
  /\ \E mRes \in SelectMembersOfBill(member_votes, requests[a].req.billId) :
       requests' = [requests EXCEPT ![a] = Loop(requests[a], mRes)]
  /\ UNCHANGED <<tables, adminTokens, login, engineVars>>

\* DELETE /api/bills/:id up to the SELECT of the members to recompute
DeleteBill(a, req) ==
  /\ Admitted(a, req, "DELETE /api/bills/:id")
  /\ \E mRes \in SelectMembersOfBill(member_votes, req.billId) :
       requests' = [requests EXCEPT ![a] =
                      Handler("delete", req, 0, mRes, NoScores, member_votes)]
  /\ UNCHANGED <<tables, adminTokens, login, engineVars>>

\* DELETE /api/bills/:id, the DELETE
DeleteBillRow(a) ==
  /\ requests[a].pc = "delete"
  /\ LET h == requests[a]
         id == h.req.billId
     IN  IF id \notin DOMAIN bills
         THEN /\ requests' = [requests EXCEPT ![a] =
                                Handler("done", h.req, 404, <<>>, NoScores, h.arrival)]
              /\ UNCHANGED <<bills, member_votes>>
         ELSE /\ bills' = Remove(bills, id)
              /\ member_votes' = CascadeBill(member_votes, id)
              /\ requests' = [requests EXCEPT ![a] = Loop(h, h.pending)]
  /\ UNCHANGED <<politicians, adminTokens, login, engineVars>>

\* POST /api/members/:id/bills up to its INSERT
PostMemberBill(a, req) ==
  /\ Admitted(a, req, "POST /api/members/:id/bills")
  /\ LET memberId == req.memberId
         billId == req.billId
         isCurrent == IF Has(req.body, "isCurrent") THEN req.body.isCurrent ELSE NULL
     IN  IF billId = NULL \/ ~Has(req.body, "vote")
         THEN Reply(a, req, 400) /\ UNCHANGED member_votes
         ELSE IF ~ForeignKeysHold(politicians, bills, memberId, billId)
         THEN Reply(a, req, 500) /\ UNCHANGED member_votes
         ELSE /\ member_votes' =
                   UpsertVote(member_votes, memberId, billId, req.body.vote, isCurrent)
              /\ requests' = [requests EXCEPT ![a] =
                                Handler("read", req, 0, <<memberId>>, NoScores, member_votes)]
  /\ UNCHANGED <<politicians, bills, adminTokens, login, engineVars>>

\* DELETE /api/members/:id/bills/:billId up to its DELETE
DeleteMemberBill(a, req) ==
  /\ Admitted(a, req, "DELETE /api/members/:id/bills/:billId")
  /\ LET rows == RowsOfPair(member_votes, req.memberId, req.billId)
     IN  IF rows = {}
         THEN Reply(a, req, 404) /\ UNCHANGED member_votes
         ELSE /\ member_votes' = WithoutRows(member_votes, rows)
              /\ requests' = [requests EXCEPT ![a] =
                                Handler("read", req, 0, <<req.memberId>>, NoScores,
                                        member_votes)]
  /\ UNCHANGED <<politicians, bills, adminTokens, login, engineVars>>

\* recomputeScoresForMember(Head(pending)): the SELECT and the loop over rows
RecomputeRead(a) ==
  /\ requests[a].pc = "read"
  /\ LET h == requests[a]
         rows == SelectMemberRows(member_votes, bills, Head(h.pending))
     IN  requests' = [requests EXCEPT ![a] =
                        Handler("update", h.req, 0, h.pending, ScoresOfRows(rows), h.arrival)]
  /\ UNCHANGED <<tables, adminTokens, login, engineVars>>

\* recomputeScoresForMember(Head(pending)): the UPDATE; then the next member of
\* the loop, or the answer
RecomputeUpdate(a) ==
  /\ requests[a].pc = "update"
  /\ politicians' = UpdateScores(politicians, Head(requests[a].pending), requests[a].scores)
  /\ requests' = [requests EXCEPT ![a] = Loop(requests[a], Tail(requests[a].pending))]
  /\ UNCHANGED <<bills, member_votes, adminTokens, login, engineVars>>

----------------------------------------------------------------------------
(* The server: the databases it starts on and the requests it is sent *)

\* the two politicians initDb inserts into an empty table; the second one has
\* been given a bioguide id since
SeedPolitician(id) ==
  IF id = "P1"
  THEN Politician(NULL, "Sample Senator", 1, Number(<<92, 1>>), Number(<<95, 1>>))
  ELSE Politician("G1", "Sample Representative", 2, Number(<<88, 1>>), Number(<<90, 1>>))

\* the stored scores once every member with a row of member_votes has been
\* recomputed; a member without a row keeps the scores it was inserted with
Settled(pol, bl, mv) ==
  [p \in DOMAIN pol |->
     IF RowsOfMember(mv, p) = {} THEN pol[p]
     ELSE recomputeScoresForMember(pol, bl, mv, p)[p]]

\* the tables member_votes over the politicians ps and the bills bs with the
\* choices cs: at most one row per (member, bill)
VoteTables(ps, bs, cs) ==
  LET rows == {MemberVote(m, b, c[1], c[2]) : m \in ps, b \in bs, c \in cs}
  IN  {SetToBag(S) :
         S \in {T \in SUBSET rows :
                  \A r, q \in T : (r.member_id = q.member_id /\ r.bill_id = q.bill_id)
                                    => r = q}}

\* initDb creates the tables only if they do not exist: the server starts on
\* the database an earlier run has left
Database(pol, bl, mv) ==
  [politicians |-> Settled(pol, bl, mv), bills |-> bl, member_votes |-> mv]

ServerDatabases ==
  {Database([p \in ps |-> SeedPolitician(p)], bl, mv) :
     ps \in {{"P1"}, {"P1", "P2"}},
     bl \in {[b \in {"B1"} |-> Bill("d1", p)] : p \in {"America First", "Neither"}}
            \cup {[b \in BillIds |->
                     Bill("d1", IF b = "B1" THEN p ELSE "Anti-America First")] :
                    p \in {"America First", "Neither"}},
     mv \in VoteTables(PoliticianIds, BillIds,
                       {<<"Approved", "true">>, <<"Opposed", "false">>,
                        <<"Absent", "true">>})}

\* the database is one the constraints of initDb allow
Valid(db) ==
  \A r \in BagToSet(db.member_votes) :
    r.member_id \in DOMAIN db.politicians /\ r.bill_id \in DOMAIN db.bills

NoEngine ==
  /\ allVotes = <<>>
  /\ allMemberVotes = <<>>
  /\ call = NoCall
  /\ result = NoResult

ServerStarts(databases) ==
  /\ NoEngine
  /\ \E db \in {d \in databases : Valid(d)} :
       /\ politicians = db.politicians
       /\ bills = db.bills
       /\ member_votes = db.member_votes
  /\ adminTokens = {}
  /\ login = NoLogin
  /\ requests = [a \in Admins |-> Idle]

\* what is typed into the login form
Passwords == {ADMIN_PASSWORD, "guess", NULL}

\* what Congress.gov answers to sync-members
Rosters ==
  {[ok |-> FALSE, members |-> <<>>],
   [ok |-> TRUE, members |-> <<>>],
   [ok |-> TRUE, members |-> <<[bioguideId |-> "G1", profile |-> "b"]>>],
   [ok |-> TRUE, members |-> <<[bioguideId |-> "G2", profile |-> "b"]>>]}

\* the requests to the admin endpoints sent with the bearer token token
MemberRequests(token) ==
  {Request("POST /api/members", token, NULL, NULL, body) :
     body \in {<<>>, [bioguideId |-> "G1"]}}
  \cup {Request("PUT /api/members/:id", token, m, NULL, body) :
          m \in PoliticianIds,
          body \in {<<>>, [profile |-> "b"], [position |-> 1], [bioguideId |-> "G1"]}}
  \cup {Request("DELETE /api/members/:id", token, m, NULL, <<>>) : m \in PoliticianIds}
  \cup {Request("POST /api/members/reorder", token, NULL, NULL, body) :
          body \in {<<>>, [ids |-> <<>>], [ids |-> <<"P2", "P1">>]}}
  \cup {Request("POST /api/admin/sync-members", token, NULL, NULL, <<>>)}

BillRequests(token) ==
  {Request("POST /api/bills", token, NULL, NULL, body) :
     body \in {<<>>, [details |-> "d1"],
               [details |-> "d1", afPosition |-> "America First"]}}
  \cup {Request("PUT /api/bills/:id", token, NULL, b, body) :
          b \in BillIds,
          body \in {<<>>, [details |-> "d2"]} \cup {[afPosition |-> p] : p \in AfPositions}}
  \cup {Request("DELETE /api/bills/:id", token, NULL, b, <<>>) : b \in BillIds}

VoteRequests(token) ==
  {Request("POST /api/members/:id/bills", token, m, b, body) :
     m \in PoliticianIds, b \in BillIds,
     body \in {<<>>} \cup {[vote |-> v] : v \in VoteValues}
                \cup {[vote |-> v, isCurrent |-> c] :
                        v \in {"Approved", "Opposed"}, c \in {"true", "false"}}}
  \cup {Request("DELETE /api/members/:id/bills/:billId", token, m, b, <<>>) :
          m \in PoliticianIds, b \in BillIds}

\* a bearer token that no login has given out
ForgedToken == "t0"

ServerRequests ==
  UNION {MemberRequests(token) \cup BillRequests(token) \cup VoteRequests(token) :
           token \in Tokens \cup {NULL, ForgedToken}}

AllIdle == \A a \in Admins : requests[a].pc = "idle"

\* the passwords tried while no request has been sent
Tried(passwords) == IF AllIdle THEN passwords ELSE {}

\* the requests the connection a may send: one, and none right after a login
\* that failed
Arriving(a, reqs) ==
  IF requests[a].pc = "idle" /\ login.status \in {0, 200} THEN reqs ELSE {}

\* the handler of a request of reqs sent on the connection a begins
Serve(a, reqs) ==
  \/ \E req \in Arriving(a, reqs) : Unauthorized(a, req)
  \/ \E req \in Arriving(a, reqs) : PostMember(a, req)
  \/ \E req \in Arriving(a, reqs) : PutMember(a, req)
  \/ \E req \in Arriving(a, reqs) : DeleteMember(a, req)
  \/ \E req \in Arriving(a, reqs) : ReorderMembers(a, req)
  \/ \E req \in Arriving(a, reqs), fetched \in Rosters : SyncMembers(a, req, fetched)
  \/ \E req \in Arriving(a, reqs) : PostBill(a, req)
  \/ \E req \in Arriving(a, reqs) : PutBill(a, req)
  \/ \E req \in Arriving(a, reqs) : DeleteBill(a, req)
  \/ \E req \in Arriving(a, reqs) : PostMemberBill(a, req)
  \/ \E req \in Arriving(a, reqs) : DeleteMemberBill(a, req)

\* the handler on the connection a goes on after an await
Continue(a) ==
  \/ SelectMembers(a)
  \/ DeleteBillRow(a)
  \/ RecomputeRead(a)
  \/ RecomputeUpdate(a)

ServerInit == ServerStarts(ServerDatabases)

\* logins until one succeeds, then one request, served to its answer; the
\* request may also come before any login
ServerNext ==
  \/ \E password \in Tried(Passwords) : Login(password)
  \/ Serve("A1", ServerRequests)
  \/ Continue("A1")

ServerSpec == ServerInit /\ [][ServerNext]_vars

----------------------------------------------------------------------------
(* The server with two admin connections at once *)

RaceDatabases ==
  {Database([p \in PoliticianIds |-> SeedPolitician(p)],
            [b \in BillIds |->
               Bill("d1", IF b = "B1" THEN "America First" ELSE "Anti-America First")],
            mv) :
     mv \in VoteTables(PoliticianIds, BillIds, {<<"Approved", "true">>})}

\* the requests to the four routes that recompute scores, sent with a token
RaceRequests ==
  UNION {{Request("PUT /api/bills/:id", token, NULL, b, [afPosition |-> p]) :
            b \in BillIds, p \in {"America First", "Anti-America First"}}
         \cup {Request("DELETE /api/bills/:id", token, NULL, b, <<>>) : b \in BillIds}
         \cup {Request("POST /api/members/:id/bills", token, m, b,
                       [vote |-> v, isCurrent |-> "true"]) :
                 m \in PoliticianIds, b \in BillIds, v \in {"Approved", "Opposed"}}
         \cup {Request("DELETE /api/members/:id/bills/:billId", token, m, b, <<>>) :
                 m \in PoliticianIds, b \in BillIds} :
           token \in Tokens}

\* the handler of a request of reqs to one of the four routes begins
ServeScoreRoute(a, reqs) ==
  \/ \E req \in Arriving(a, reqs) : PutBill(a, req)
  \/ \E req \in Arriving(a, reqs) : DeleteBill(a, req)
  \/ \E req \in Arriving(a, reqs) : PostMemberBill(a, req)
  \/ \E req \in Arriving(a, reqs) : DeleteMemberBill(a, req)

RaceInit == ServerStarts(RaceDatabases)

\* a login, then one request on each connection; the steps of the two
\* handlers interleave in every order
RaceNext ==
  \/ \E password \in Tried({ADMIN_PASSWORD}) : Login(password)
  \/ ServeScoreRoute("A1", RaceRequests)
  \/ ServeScoreRoute("A2", RaceRequests)
  \/ Continue("A1")
  \/ Continue("A2")

RaceSpec == RaceInit /\ [][RaceNext]_vars

----------------------------------------------------------------------------
(* Properties of the engine.  They speak of the invocation recorded in     *)
(* call and of what it returned, result; result.perCategory[c] is what     *)
(* computeCategoryScore returned for category c.                           *)

TheMember == call.memberId
TheFilter == call.congressFilter

\* the votes computeCategoryScore selects for category c in this invocation
Selected(c) == SelectVotes(c, allVotes, TheFilter)

\* the choices the catalog records for the scored member on the vote vid
Recorded(vid) ==
  {allMemberVotes[i].vote :
     i \in {j \in 1..Len(allMemberVotes) :
              allMemberVotes[j].voteId = vid /\ allMemberVotes[j].memberId = TheMember}}

Opposite(position) == IF position = "YES" THEN "NO" ELSE "YES"

RemoveAt(seq, i) == SubSeq(seq, 1, i - 1) \o SubSeq(seq, i + 1, Len(seq))

\* v is a vote of category c in the session the filter f asks for
Matches(v, c, f) == v.category = c /\ (f.given => v.congress = f.value)

\* C1: computeCategoryScore returns NoData whenever no vote of allVotes matches
\* the requested category and, when a session filter is given, the filter.
C1_NoMatchingVoteIsNoData ==
  call.made =>
    \A c \in CategoryId :
      (\A i \in 1..Len(allVotes) : ~Matches(allVotes[i], c, TheFilter))
        => result.perCategory[c].isNull

\* C2: when the member's choice on every selected vote of a category is an
\* explicit ABSENT or unrecorded, at least one vote is selected and every
\* selected vote has importance weight 1.0, the category score is exactly 25.
AllAbsentIn(c) ==
  LET sel == Selected(c)
  IN  /\ Len(sel) >= 1
      /\ \A k \in 1..Len(sel) :
           /\ sel[k].importanceWeight = ROne
           /\ Recorded(sel[k].id) \subseteq {"ABSENT"}

C2_AllAbsentScores25 ==
  call.made =>
    \A c \in CategoryId : AllAbsentIn(c) => result.perCategory[c] = Number(<<25, 1>>)

\* an invocation where a category has one vote with an explicit ABSENT and one
\* vote without a record, both of weight 1.0
C2_Witness ==
  /\ call.made
  /\ \E c \in CategoryId :
       LET sel == Selected(c)
       IN  /\ AllAbsentIn(c)
           /\ \E k, l \in 1..Len(sel) :
                /\ Recorded(sel[k].id) = {"ABSENT"}
                /\ Recorded(sel[l].id) = {}

\* C3: when the member's recorded choice equals the reference position on every
\* selected vote of a category, with at least one vote and positive weights,
\* the category score is exactly 100.
AllAlignedIn(c) ==
  LET sel == Selected(c)
  IN  /\ Len(sel) >= 1
      /\ \A k \in 1..Len(sel) :
           /\ RLeq(RZero, sel[k].importanceWeight)
           /\ sel[k].importanceWeight # RZero
           /\ Recorded(sel[k].id) = {sel[k].afPosition}

C3_AllAlignedScores100 ==
  call.made =>
    \A c \in CategoryId : AllAlignedIn(c) => result.perCategory[c] = Number(<<100, 1>>)

\* an invocation where a category has a YES vote and a NO vote of different
\* weights and the member voted the reference position on both
C3_Witness ==
  /\ call.made
  /\ \E c \in CategoryId :
       LET sel == Selected(c)
       IN  /\ AllAlignedIn(c)
           /\ \E k, l \in 1..Len(sel) :
                /\ sel[k].afPosition = "YES"
                /\ sel[l].afPosition = "NO"
                /\ sel[k].importanceWeight # sel[l].importanceWeight

\* C4: when the member's recorded choice is the definite choice opposite to the
\* reference position on every selected vote of a category, with at least one
\* vote and positive weights, the category score is exactly 0.
AllOpposedIn(c) ==
  LET sel == Selected(c)
  IN  /\ Len(sel) >= 1
      /\ \A k \in 1..Len(sel) :
           /\ RLeq(RZero, sel[k].importanceWeight)
           /\ sel[k].importanceWeight # RZero
           /\ Recorded(sel[k].id) = {Opposite(sel[k].afPosition)}

C4_AllOpposedScores0 ==
  call.made =>
    \A c \in CategoryId : AllOpposedIn(c) => result.perCategory[c] = Number(<<0, 1>>)

\* an invocation where a category has a YES vote and a NO vote and the member
\* voted against the reference position on both
C4_Witness ==
  /\ call.made
  /\ \E c \in CategoryId :
       LET sel == Selected(c)
       IN  /\ AllOpposedIn(c)
           /\ \E k, l \in 1..Len(sel) :
                /\ sel[k].afPosition = "YES"
                /\ sel[l].afPosition = "NO"

\* the points of the rubric for a vote with reference position `position` on
\* which the member's recorded choices are `choices`
RubricPoints(position, choices) ==
  IF choices \subseteq {"ABSENT"} THEN <<1, 4>>
  ELSE IF choices = {position} THEN <<1, 1>>
  ELSE <<0, 1>>

\* sum over the votes sel[1..k] of points * importanceWeight (weighted) or of
\* importanceWeight alone
RECURSIVE SumOver(_, _, _)
SumOver(sel, k, weighted) ==
  IF k = 0 THEN RZero
  ELSE RAdd(SumOver(sel, k - 1, weighted),
            IF weighted
            THEN RMul(RubricPoints(sel[k].afPosition, Recorded(sel[k].id)),
                      sel[k].importanceWeight)
            ELSE sel[k].importanceWeight)

PointsSum(sel) == SumOver(sel, Len(sel), TRUE)
WeightSum(sel) == SumOver(sel, Len(sel), FALSE)

\* a category with exactly one aligned vote of weight 1 and one opposed vote of
\* weight 2
OneAlignedTwoOpposed(c) ==
  LET sel == Selected(c)
  IN  /\ Len(sel) = 2
      /\ \E k, l \in 1..2 :
           /\ sel[k].importanceWeight = <<1, 1>>
           /\ Recorded(sel[k].id) = {sel[k].afPosition}
           /\ sel[l].importanceWeight = <<2, 1>>
           /\ Recorded(sel[l].id) = {Opposite(sel[l].afPosition)}

\* C5: with a non-zero weight sum the category score is
\* 100 * (sum of points * importanceWeight) / (sum of importanceWeight) over
\* the selected votes, points being 0.25 for ABSENT, 1 for the reference
\* position and 0 for the opposite choice; one aligned vote of weight 1 with
\* one opposed vote of weight 2 scores 100/3.
C5_WeightedAverage ==
  call.made =>
    \A c \in CategoryId :
      LET sel == Selected(c)
          weightSum == WeightSum(sel)
      IN  /\ (Len(sel) >= 1 /\ weightSum # RZero)
               => result.perCategory[c]
                    = Number(RDiv(RMul(RHundred, PointsSum(sel)), weightSum))
          /\ OneAlignedTwoOpposed(c) => result.perCategory[c] = Number(<<100, 3>>)

\* an invocation on a category with one aligned vote of weight 1 and one
\* opposed vote of weight 2
C5_Witness == call.made /\ \E c \in CategoryId : OneAlignedTwoOpposed(c)

InRange(score) == score.isNull \/ (RLeq(RZero, score.value) /\ RLeq(score.value, RHundred))

\* C6: with non-negative importance weights every category score and the
\* overall score is NoData or a number from 0 to 100.
C6_ScoresInRange ==
  (call.made /\ \A i \in 1..Len(allVotes) : RLeq(RZero, allVotes[i].importanceWeight))
    => /\ \A c \in CategoryId : InRange(result.perCategory[c])
       /\ InRange(result.overall)

\* an invocation that returned 100 for one category, a score strictly between
\* 0 and 100 for another, and a numeric overall score
C6_Witness ==
  /\ call.made
  /\ ~result.overall.isNull
  /\ \E c, d \in CategoryId :
       /\ result.perCategory[c] = Number(RHundred)
       /\ ~result.perCategory[d].isNull
       /\ result.perCategory[d].value # RZero
       /\ result.perCategory[d].value # RHundred

AbsentRecord(m, vid) == [voteId |-> vid, memberId |-> m, vote |-> "ABSENT"]

\* the positions of the catalog's votes on which the scored member has no record
Unrecorded == {i \in 1..Len(allVotes) : Recorded(allVotes[i].id) = {}}

\* the positions of the scored member's explicit ABSENT records
ExplicitAbsent ==
  {i \in 1..Len(allMemberVotes) :
     allMemberVotes[i].memberId = TheMember /\ allMemberVotes[i].vote = "ABSENT"}

\* C7: a missing record and an explicit ABSENT record are indistinguishable:
\* adding an ABSENT record for a (member, vote) pair without a record, or
\* removing an explicit ABSENT record, changes neither a category score nor
\* the overall score.
C7_MissingRecordIsAbsent ==
  call.made =>
    /\ \A i \in Unrecorded :
         computeMemberAFScore(TheMember, allVotes,
                              Append(allMemberVotes, AbsentRecord(TheMember, allVotes[i].id)),
                              TheFilter) = result
    /\ \A i \in ExplicitAbsent :
         computeMemberAFScore(TheMember, allVotes, RemoveAt(allMemberVotes, i), TheFilter)
           = result

\* an invocation with a numeric score for a category in which one selected
\* vote of positive weight has no record of the member and another has an
\* explicit ABSENT record
C7_Witness ==
  /\ call.made
  /\ \E c \in CategoryId :
       LET sel == Selected(c)
       IN  /\ ~result.perCategory[c].isNull
           /\ \E k, l \in 1..Len(sel) :
                /\ sel[k].importanceWeight # RZero
                /\ Recorded(sel[k].id) = {}
                /\ sel[l].importanceWeight # RZero
                /\ Recorded(sel[l].id) = {"ABSENT"}

\* the positions of the catalog's votes of weight 0 whose category has a
\* selected vote of positive weight among the other votes
ZeroWeightBesidePositive ==
  {i \in 1..Len(allVotes) :
     /\ allVotes[i].importanceWeight = RZero
     /\ LET others == SelectVotes(allVotes[i].category, RemoveAt(allVotes, i), TheFilter)
        IN  \E k \in 1..Len(others) :
              RLeq(RZero, others[k].importanceWeight) /\ others[k].importanceWeight # RZero}

AllZeroWeight(c) ==
  LET sel == Selected(c)
  IN  /\ Len(sel) >= 1
      /\ \A k \in 1..Len(sel) : sel[k].importanceWeight = RZero

\* C8: a vote of importance weight 0 beside a positive-weight vote of its
\* category leaves the category score what it is without that vote, and a
\* category whose selected votes all have weight 0 scores NoData.
C8_ZeroWeight ==
  call.made =>
    /\ \A i \in ZeroWeightBesidePositive :
         result.perCategory[allVotes[i].category]
           = computeCategoryScore(TheMember, allVotes[i].category, RemoveAt(allVotes, i),
                                  allMemberVotes, TheFilter)
    /\ \A c \in CategoryId : AllZeroWeight(c) => result.perCategory[c].isNull

\* an invocation on a category with a selected vote of weight 0 on which the
\* member voted the reference position, beside a positive-weight vote on
\* which the member voted against it
C8_Witness ==
  /\ call.made
  /\ \E i \in ZeroWeightBesidePositive :
       /\ Len(Selected(allVotes[i].category)) = 2
       /\ Recorded(allVotes[i].id) = {allVotes[i].afPosition}
       /\ result.perCategory[allVotes[i].category] = Number(RZero)

\* the categories for which the invocation returned a number
WithData == {c \in CategoryId : ~result.perCategory[c].isNull}

\* the category weights in hundredths
WeightPercent(c) ==
  CASE c = "IMMIGRATION" -> 30
    [] c = "FOREIGN_AID" -> 30
    [] c = "TAXES_TRADE" -> 20
    [] c = "HEALTHCARE"  -> 10
    [] c = "INSURANCE"   -> 10

\* sum over the categories of S of score * weight (weighted) or of weight
RECURSIVE CategorySum(_, _)
CategorySum(S, weighted) ==
  IF S = {} THEN RZero
  ELSE LET c == CHOOSE x \in S : TRUE
       IN  RAdd(CategorySum(S \ {c}, weighted),
                IF weighted
                THEN RMul(result.perCategory[c].value, <<WeightPercent(c), 1>>)
                ELSE <<WeightPercent(c), 1>>)

\* C9: the overall score is the average of the numeric category scores
\* weighted 0.30, 0.30, 0.20, 0.10, 0.10 and renormalized over the categories
\* with data; with data for Healthcare and Insurance only it is
\* (healthcareScore + insuranceScore) / 2.
C9_OverallRenormalized ==
  call.made =>
    /\ WithData # {}
         => result.overall
              = Number(RDiv(CategorySum(WithData, TRUE), CategorySum(WithData, FALSE)))
    /\ WithData = {"HEALTHCARE", "INSURANCE"}
         => result.overall
              = Number(RDiv(RAdd(result.perCategory["HEALTHCARE"].value,
                                 result.perCategory["INSURANCE"].value), <<2, 1>>))

\* an invocation with data for Healthcare and Insurance only and different
\* scores for the two
C9_Witness ==
  /\ call.made
  /\ WithData = {"HEALTHCARE", "INSURANCE"}
  /\ result.perCategory["HEALTHCARE"] # result.perCategory["INSURANCE"]

\* C10: the overall score is NoData exactly when all five categories returned
\* NoData.
C10_OverallNoDataIffAllNoData ==
  call.made => (result.overall.isNull <=> \A c \in CategoryId : result.perCategory[c].isNull)

\* an invocation with a single category with data, scored 0, and a numeric
\* overall score
C10_Witness ==
  /\ call.made
  /\ Cardinality(WithData) = 1
  /\ \A c \in WithData : result.perCategory[c] = Number(RZero)
  /\ ~result.overall.isNull

\* the score computeCategoryScore returns for category c of the scored member
\* when no session filter is passed
Lifetime(c) == computeCategoryScore(TheMember, c, allVotes, allMemberVotes, NoFilter)

\* the votes of category c held in the session the filter asks for
InSession(c) ==
  SelectSeq(allVotes, LAMBDA v : v.category = c /\ v.congress = TheFilter.value)

NoRecordOn(sel) == \A k \in 1..Len(sel) : Recorded(sel[k].id) = {}

\* C12 as stated, for the non-zero session filters: a category whose lifetime
\* score is numeric and on whose votes of the filtered session the member has
\* no recorded choice returns NoData under the filter.
C12_NoSessionRecordIsNoData ==
  call.made /\ Truthy(TheFilter) =>
    \A c \in CategoryId :
      (~Lifetime(c).isNull /\ NoRecordOn(InSession(c)))
        => result.perCategory[c].isNull

\* C12 amended: with a session filter given, a category whose lifetime score
\* is numeric and on whose selected votes the member has no recorded choice
\* scores 25 when a selected vote has positive weight (every selected vote
\* counts as ABSENT), and NoData only when no vote is selected or the selected
\* weights sum to 0.
C12_NoSessionRecordIsAbsence ==
  call.made /\ TheFilter.given =>
    \A c \in CategoryId :
      LET sel == Selected(c)
      IN  (~Lifetime(c).isNull /\ NoRecordOn(sel))
            => result.perCategory[c]
                 = IF WeightSum(sel) = RZero THEN Null ELSE Number(<<25, 1>>)

\* an invocation filtered to session 1 where a category has a recorded,
\* aligned vote in session 0 and a vote of positive weight in session 1 on
\* which the member has no record
C12_Witness ==
  /\ call.made
  /\ TheFilter = Filter(1)
  /\ \E c \in CategoryId :
       LET sel == Selected(c)
       IN  /\ Len(sel) = 1
           /\ sel[1].congress = 1
           /\ sel[1].importanceWeight # RZero
           /\ NoRecordOn(sel)
           /\ Lifetime(c) # Number(<<25, 1>>)
           /\ ~Lifetime(c).isNull
           /\ result.perCategory[c] = Number(<<25, 1>>)

\* C13: whenever a session filter is given, whatever its value, the score of a
\* category is the score over exactly the votes of that category held in the
\* filtered session, and NoData when there is none.
C13_FilterSelectsSession ==
  call.made /\ TheFilter.given =>
    \A c \in CategoryId :
      /\ Selected(c) = InSession(c)
      /\ (Len(InSession(c)) = 0 => result.perCategory[c].isNull)

\* the catalogs are the fixture as exported and the scored member is M001
FixtureM001 ==
  /\ call.made
  /\ TheMember = "M001"
  /\ allVotes = FixtureVotes
  /\ allMemberVotes = FixtureMemberVotes

OverallIsRenormalizedAverage ==
  result.overall = Number(RDiv(CategorySum(WithData, TRUE), CategorySum(WithData, FALSE)))

\* C14 as stated: on the fixture M001 gets an Immigration score of 100 and a
\* Foreign Aid score of 0, and an overall score that is the renormalized
\* weighted average over the categories with data.
C14_FixtureScoresAsStated ==
  FixtureM001 =>
    /\ result.perCategory["IMMIGRATION"] = Number(<<100, 1>>)
    /\ result.perCategory["FOREIGN_AID"] = Number(<<0, 1>>)
    /\ OverallIsRenormalizedAverage

\* C14 amended: on the fixture M001 gets an Immigration score of 70 (the
\* aligned vote V001 of weight 1.5 and the unrecorded vote V002 of weight 1.0,
\* counted as ABSENT); a Foreign Aid score of 25/3 over all sessions (V003
\* opposed, V004 unrecorded) and of 0 within CURRENT_CONGRESS; all five
\* categories have data and the overall score is their weighted average, 41
\* over all sessions and 38.5 within CURRENT_CONGRESS.
C14_FixtureScores ==
  FixtureM001 =>
    /\ result.perCategory["IMMIGRATION"] = Number(<<70, 1>>)
    /\ result.perCategory["FOREIGN_AID"]
         = IF TheFilter = NoFilter THEN Number(<<25, 3>>) ELSE Number(<<0, 1>>)
    /\ WithData = CategoryId
    /\ OverallIsRenormalizedAverage
    /\ result.overall
         = IF TheFilter = NoFilter THEN Number(<<41, 1>>) ELSE Number(<<77, 2>>)

\* M001 scored on the fixture within CURRENT_CONGRESS
C14_Witness ==
  /\ FixtureM001
  /\ TheFilter = Filter(CURRENT_CONGRESS)
  /\ result.perCategory["FOREIGN_AID"] = Number(<<0, 1>>)

----------------------------------------------------------------------------
(* Properties of the server.  They speak of the handler state requests[a]:  *)
(* its request req, its answer status and the rows of member_votes at the  *)
(* arrival of the request.                                                 *)

ScoreRoutes ==
  {"PUT /api/bills/:id", "DELETE /api/bills/:id",
   "POST /api/members/:id/bills", "DELETE /api/members/:id/bills/:billId"}

BillRoutes == {"PUT /api/bills/:id", "DELETE /api/bills/:id"}

\* the handler h has answered 200 to a request on one of the routes
Completed(h, routes) == h.pc = "done" /\ h.status = 200 /\ h.req.op \in routes

\* the members the operation of h touches: the member of the vote it records
\* or deletes, the members with a recorded choice on the bill it edits or
\* deletes
Touched(h) ==
  IF h.req.op \in BillRoutes
  THEN {r.member_id : r \in RowsOfBill(h.arrival, h.req.billId)}
  ELSE {h.req.memberId}

StoredScores(m) ==
  [lifetimeScore |-> politicians[m].lifetime_score,
   currentScore |-> politicians[m].current_score]

\* what recomputeScoresForMember computes for m from the rows that exist now
FromScratch(m) == ScoresOfRows(SelectMemberRows(member_votes, bills, m))

UpToDate(m) == m \in DOMAIN politicians => StoredScores(m) = FromScratch(m)

\* C15: when a bill edit, a bill delete, a member-vote upsert or a member-vote
\* delete has completed with nothing else running, the stored lifetime and
\* current scores of every member the operation touched equal what
\* recomputeScoresForMember computes from the rows that now exist.
C15_TouchedScoresUpToDate ==
  \A a \in Admins :
    Completed(requests[a], ScoreRoutes) => \A m \in Touched(requests[a]) : UpToDate(m)

\* a completed edit of a bill's position on which two members had recorded
\* choices, after which the two have different lifetime scores
C15_Witness ==
  LET h == requests["A1"]
  IN  /\ Completed(h, {"PUT /api/bills/:id"})
      /\ Has(h.req.body, "afPosition")
      /\ Touched(h) = PoliticianIds
      /\ ~politicians["P1"].lifetime_score.isNull
      /\ ~politicians["P2"].lifetime_score.isNull
      /\ politicians["P1"].lifetime_score # politicians["P2"].lifetime_score
      /\ politicians["P1"].lifetime_score # Number(<<92, 1>>)

\* C16: once two admin operations that touch the same member and ran at the
\* same time have both completed, the stored scores of that member equal what
\* recomputeScoresForMember computes from the rows that exist then.
C16_LastWriteConsistent ==
  \A m \in PoliticianIds :
    (\A a \in Admins : Completed(requests[a], ScoreRoutes) /\ m \in Touched(requests[a]))
      => UpToDate(m)

\* the number of rows of member_votes
RowCount(mv) == CountRows(mv, BagToSet(mv))

\* the handler h has run the INSERT ... ON CONFLICT of a request to record a
\* choice
RanUpsert(h) ==
  /\ h.req.op = "POST /api/members/:id/bills"
  /\ h.pc \in {"read", "update"} \/ (h.pc = "done" /\ h.status = 200)

\* C17: member_votes holds at most one row per (member, bill) pair; recording
\* a choice for a pair that has a row replaces the choice of that row and
\* leaves the number of rows as it was.
C17_OneRowPerPair ==
  /\ \A m \in PoliticianIds, b \in BillIds :
       CountRows(member_votes, RowsOfPair(member_votes, m, b)) <= 1
  /\ \A a \in Admins :
       LET h == requests[a]
           m == h.req.memberId
           b == h.req.billId
       IN  (RanUpsert(h) /\ RowsOfPair(h.arrival, m, b) # {})
             => /\ RowCount(member_votes) = RowCount(h.arrival)
                /\ \A r \in RowsOfPair(member_votes, m, b) : r.vote = h.req.body.vote
                /\ \A p \in PoliticianIds, c \in BillIds :
                     <<p, c>> # <<m, b>>
                       => RowsOfPair(member_votes, p, c) = RowsOfPair(h.arrival, p, c)

\* a choice recorded again for a pair whose row held another choice, with a
\* second row in the table
C17_Witness ==
  LET h == requests["A1"]
      m == h.req.memberId
      b == h.req.billId
  IN  /\ RanUpsert(h)
      /\ h.pc = "done"
      /\ \E r \in RowsOfPair(h.arrival, m, b) : r.vote # h.req.body.vote
      /\ RowCount(member_votes) = 2

\* C18: every row of member_votes references a politician and a bill that
\* exist, also after a bill or a politician has been deleted; recording a
\* choice for a politician or a bill that does not exist is answered with an
\* error and adds no row.
C18_RowsReferenceExisting ==
  /\ \A r \in BagToSet(member_votes) :
       r.member_id \in DOMAIN politicians /\ r.bill_id \in DOMAIN bills
  /\ \A a \in Admins :
       LET h == requests[a]
       IN  (/\ h.req.op = "POST /api/members/:id/bills"
            /\ h.pc # "idle"
            /\ ~(h.req.memberId \in DOMAIN politicians /\ h.req.billId \in DOMAIN bills))
             => /\ h.pc = "done"
                /\ h.status \in {400, 401, 500}
                /\ member_votes = h.arrival

\* a bill with recorded choices has been deleted, and rows of the other bill
\* are left
C18_Witness ==
  LET h == requests["A1"]
  IN  /\ Completed(h, {"DELETE /api/bills/:id"})
      /\ RowsOfBill(h.arrival, h.req.billId) # {}
      /\ member_votes # <<>>

\* the connection a sends its request in this step
Sends(a) == requests[a].pc = "idle" /\ requests'[a].pc # "idle"

\* the handler on the connection a takes a step
Steps(a) == requests'[a] # requests[a]

\* C19: the tables change only in a step of the handler of a request whose
\* bearer token was in adminTokens when the request arrived; a request with
\* a missing or unknown token is answered 401 and leaves politicians, bills
\* and member_votes as they are; adminTokens only gains tokens, one at a time,
\* given out by a login with the admin password answered 200, and a login
\* with a wrong or missing password gives out none.
C19_OnlyAdminsChangeTheStore ==
  [][/\ tables' # tables
          => \E a \in Admins :
               /\ Steps(a)
               /\ requests'[a].status # 401
               /\ requests'[a].req.token \in adminTokens
     /\ \A a \in Admins :
          (Sends(a) /\ requests'[a].req.token \notin adminTokens)
            => /\ requests'[a].pc = "done"
               /\ requests'[a].status = 401
               /\ tables' = tables
     /\ adminTokens' # adminTokens
          => /\ login'.password = ADMIN_PASSWORD
             /\ login'.status = 200
             /\ login'.token \notin adminTokens
             /\ adminTokens' = adminTokens \cup {login'.token}
     /\ (login' # login /\ login'.password # ADMIN_PASSWORD)
          => /\ adminTokens' = adminTokens
             /\ login'.status \in {400, 401}
             /\ login'.token = NULL]_vars

\* after a login has succeeded, a request to delete an existing bill that has
\* recorded choices, sent with a token no login gave out, is answered 401
C19_Witness ==
  LET h == requests["A1"]
  IN  /\ adminTokens # {}
      /\ h.pc = "done"
      /\ h.status = 401
      /\ h.req.op = "DELETE /api/bills/:id"
      /\ h.req.token = ForgedToken
      /\ RowsOfBill(member_votes, h.req.billId) # {}

\* C20: the UPDATE of recomputeScoresForMember writes the lifetime and current
\* score of its member and nothing else, and its SELECT writes nothing: the
\* other politicians, the other columns, bills and member_votes stay as they
\* are; so recomputing two different members in either order leaves the same
\* table.
C20_RecomputeWritesOneMember ==
  [][/\ \A a \in Admins :
          (requests[a].pc = "update" /\ Steps(a))
            => LET m == Head(requests[a].pending)
               IN  /\ bills' = bills
                   /\ member_votes' = member_votes
                   /\ DOMAIN politicians' = DOMAIN politicians
                   /\ \A p \in DOMAIN politicians :
                        IF p = m
                        THEN politicians'[p] =
                               [politicians[p] EXCEPT
                                  !.lifetime_score = requests[a].scores.lifetimeScore,
                                  !.current_score = requests[a].scores.currentScore]
                        ELSE politicians'[p] = politicians[p]
     /\ \A a \in Admins : (requests[a].pc = "read" /\ Steps(a)) => tables' = tables
     /\ \A m, n \in PoliticianIds :
          m # n =>
          recomputeScoresForMember(
              recomputeScoresForMember(politicians, bills, member_votes, m),
              bills, member_votes, n)
            = recomputeScoresForMember(
                  recomputeScoresForMember(politicians, bills, member_votes, n),
                  bills, member_votes, m)]_vars

\* a recomputation has changed the scores of P1 while P2, with recorded
\* choices of its own, has other scores
C20_Witness ==
  LET h == requests["A1"]
  IN  /\ Completed(h, {"POST /api/members/:id/bills"})
      /\ h.req.memberId = "P1"
      /\ "P2" \in DOMAIN politicians
      /\ RowsOfMember(member_votes, "P2") # {}
      /\ StoredScores("P1") # StoredScores("P2")
      /\ StoredScores("P1") = FromScratch("P1")
      /\ \E r \in RowsOfPair(h.arrival, "P1", h.req.billId) : r.vote # h.req.body.vote

\* the rows of member_votes of m that count: the bill has the position
\* 'America First' or 'Anti-America First' and the vote is 'Approved' or
\* 'Opposed'; those flagged current; those that are aligned
CountedRows(m, currentOnly) ==
  {r \in RowsOfMember(member_votes, m) :
     /\ r.bill_id \in DOMAIN bills
     /\ bills[r.bill_id].af_position \in {"America First", "Anti-America First"}
     /\ r.vote \in {"Approved", "Opposed"}
     /\ currentOnly => r.is_current_congress = "true"}

AlignedRows(m, currentOnly) ==
  {r \in CountedRows(m, currentOnly) :
     \/ bills[r.bill_id].af_position = "America First" /\ r.vote = "Approved"
     \/ bills[r.bill_id].af_position = "Anti-America First" /\ r.vote = "Opposed"}

\* 100 * aligned / counted, null when counted is 0
AlignedRatio(m, currentOnly) ==
  LET counted == CountRows(member_votes, CountedRows(m, currentOnly))
      aligned == CountRows(member_votes, AlignedRows(m, currentOnly))
  IN  IF counted = 0 THEN Null ELSE Number(Rat(100 * aligned, counted))

\* C21: when an operation that recomputes scores has completed, the stored
\* lifetime_score of every member it recomputed is 100 * aligned / counted
\* over the member's rows on bills with the position 'America First' or
\* 'Anti-America First' and the vote 'Approved' or 'Opposed', null when there
\* is none; current_score is the same over the rows flagged current; a null
\* lifetime_score comes with a null current_score.
C21_StoredScoreIsAlignedRatio ==
  \A a \in Admins :
    Completed(requests[a], ScoreRoutes) =>
      \A m \in Touched(requests[a]) \cap DOMAIN politicians :
        /\ politicians[m].lifetime_score = AlignedRatio(m, FALSE)
        /\ politicians[m].current_score = AlignedRatio(m, TRUE)
        /\ politicians[m].lifetime_score.isNull => politicians[m].current_score.isNull

====
